---- MODULE Spec2Model ----
(***************************************************************************)
(* One invocation of cb.py (CopyBuffer): module import, dependency check,  *)
(* argument dispatch, the stdin pathway, the per-path file loop, token     *)
(* counting and the text clipboard write.                                  *)
(*                                                                         *)
(* A text is a sequence of atoms.  File and stdin contents are sequences   *)
(* of one-character atoms; the literal pieces the program inserts          *)
(* ("=== File: ", "[Attached file: ", ...) and the paths are atoms of      *)
(* their own.  Everything the process does to the outside world (prints,   *)
(* reads, clipboard calls) is appended, in program order, to events.     *)
(***************************************************************************)
EXTENDS Integers, Sequences, FiniteSets

VARIABLES
    args,                 \* argparse namespace (cb.py:69-77)
    pyperclip_importable, \* whether import pyperclip resolves on this host
    pc,                   \* position in main()
    clipboard,            \* the system clipboard: [kind, value]
    events,               \* everything observable the process did, in order
    file_contents_list,   \* cb.py:111
    valid_file_paths,     \* cb.py:112
    i,                    \* index of the path the loop at cb.py:113 is at
    combined_contents     \* cb.py:105 / cb.py:138

vars == <<args, pyperclip_importable, pc, clipboard, events,
          file_contents_list, valid_file_paths, i, combined_contents>>

----------------------------------------------------------------------------
(* Bounds and input universes *)

MaxPaths == 2

PathNames == {"a.txt", "b.md", "P.PNG", "-"}

\* raw contents a file or standard input may hold
RawTexts == { <<>>,
              <<"x">>,
              <<" ", "x", "\n">>,
              <<"\t", " ">>,
              <<"x", " ", "y">> }

\* what the clipboard may hold when the process starts
InitialClipboards == { <<>>, <<"o", "l", "d">> }

Whitespace == {" ", "\n", "\t"}

\* Python's None, kept apart from every text and every list
None == << "None" >>

\* the literal pieces of the attachment wrapper; <fence> stands for the three
\* backquotes of the f-string
AttachmentOpen  == "\nContent:\n<fence>\n"
AttachmentClose == "\n<fence>\n]"

RECURSIVE SeqsUpTo(_, _)
SeqsUpTo(S, n) ==
    IF n = 0 THEN { <<>> }
    ELSE LET shorter == SeqsUpTo(S, n - 1)
         IN  shorter \cup { Append(s, x) : s \in shorter, x \in S }

Range(s) == { s[k] : k \in DOMAIN s }

----------------------------------------------------------------------------
(* Events *)

\* ev: what was done; kind: its outcome, or which line was printed;
\* path: the path or label it concerns ("" if none); text: the text involved
Ev(e, k, p, t) == [ev |-> e, kind |-> k, path |-> p, text |-> t]
Line(k, p, t) == Ev("print", k, p, t)

----------------------------------------------------------------------------
(* Pure helpers of the program *)

\* the extension of a path: the text from its last dot on
ExtOf(path) ==
    CASE path = "a.txt" -> ".txt"
      [] path = "b.md"  -> ".md"
      [] path = "P.PNG" -> ".PNG"
      [] OTHER          -> ""

\* str.lower on an extension
Lower(ext) ==
    CASE ext = ".PNG" -> ".png"
      [] OTHER        -> ext

ImageExtensions == {".png", ".jpg", ".jpeg", ".bmp", ".gif"}

\* file_path.lower().endswith(('.png', '.jpg', '.jpeg', '.bmp', '.gif'))
IsImagePath(file_path) == Lower(ExtOf(file_path)) \in ImageExtensions

RECURSIVE lstrip(_)
lstrip(s) ==
    IF s = <<>> THEN s
    ELSE IF Head(s) \in Whitespace THEN lstrip(Tail(s)) ELSE s

RECURSIVE rstrip(_)
rstrip(s) ==
    IF s = <<>> THEN s
    ELSE IF s[Len(s)] \in Whitespace THEN rstrip(SubSeq(s, 1, Len(s) - 1)) ELSE s

strip_trailing_only(s) == rstrip(s)

\* str.strip()
strip(s) == rstrip(lstrip(s))

\* Python truth value of a list, a string or None
Truthy(x) == x # None /\ x # <<>>

is_xclip_installed(xclip) == xclip
is_xsel_installed(xsel) == xsel
is_pyperclip_installed(importable) == importable

check_dependencies(xclip, xsel, importable) ==
    (IF ~is_xclip_installed(xclip) /\ ~is_xsel_installed(xsel)
        THEN << "xclip or xsel" >> ELSE << >>)
    \o
    (IF ~is_pyperclip_installed(importable) THEN << "pyperclip" >> ELSE << >>)

\* the prints of install_dependencies()
install_dependencies(xclip, xsel, importable) ==
    LET dependencies == check_dependencies(xclip, xsel, importable)
    IN  << Line("install_header", "", << >>) >>
        \o [k \in 1..Len(dependencies) |-> Line("dep", "", << dependencies[k] >>)]

AfterDependencyCheck_continue(missing_dependencies) == "main"

\* main(): if missing_dependencies: ...; return
AfterDependencyCheck(missing_dependencies) ==
    IF Truthy(missing_dependencies) THEN "done" ELSE "main"

Mode_stdin_when_empty(file_paths) ==
    IF "-" \in Range(file_paths) \/ ~Truthy(file_paths) THEN "stdin" ELSE "files"

\* which branch of main() the positional arguments select
Mode(file_paths) ==
    IF ~Truthy(file_paths) /\ "-" \notin Range(file_paths) THEN "noinput"
    ELSE IF "-" \in Range(file_paths) THEN "stdin"
    ELSE "files"

----------------------------------------------------------------------------
(* copy_file_contents_to_clipboard *)

FormatItem_header_outside(file_contents, k, include_header, discord_attachment, file_paths) ==
    LET wrapped ==
            IF discord_attachment /\ Truthy(file_paths)
            THEN << "[Attached file: ", file_paths[k], AttachmentOpen >>
                 \o file_contents \o << AttachmentClose >>
            ELSE file_contents
    IN  IF include_header /\ Truthy(file_paths)
        THEN << "=== File: ", file_paths[k], " ===\n" >> \o wrapped
        ELSE wrapped

\* the body of the loop up to the append: header, then attachment wrapper
FormatItem(file_contents, k, include_header, discord_attachment, file_paths) ==
    LET with_header ==
            IF include_header /\ Truthy(file_paths)
            THEN << "=== File: ", file_paths[k], " ===\n" >> \o file_contents
            ELSE file_contents
    IN  IF discord_attachment /\ Truthy(file_paths)
        THEN << "[Attached file: ", file_paths[k], AttachmentOpen >>
             \o with_header \o << AttachmentClose >>
        ELSE with_header

\* combined_contents after the first n iterations of the loop
RECURSIVE Combine(_, _, _, _, _)
Combine(file_contents_list_, n, include_header, discord_attachment, file_paths) ==
    IF n = 0 THEN << >>
    ELSE Combine(file_contents_list_, n - 1, include_header, discord_attachment, file_paths)
         \o FormatItem(file_contents_list_[n], n, include_header, discord_attachment, file_paths)
         \o << "\n" >>

copy_result_always(copied, combined) == combined

\* the value copy_file_contents_to_clipboard returns
copy_result(copied, combined) == IF copied THEN combined ELSE None

\* The whole call: copied is whether pyperclip.copy returned (TRUE) or raised.
\* Gives the events of the call, its return value and the clipboard afterwards.
copy_file_contents_to_clipboard(file_contents_list_, include_header, discord_attachment, file_paths, debug, copied, clip) ==
    LET n        == Len(file_contents_list_)
        combined == Combine(file_contents_list_, n, include_header, discord_attachment, file_paths)
        trace    == IF debug
                    THEN [k \in 1..n |->
                             Line("debug_combined", "",
                                   Combine(file_contents_list_, k, include_header,
                                           discord_attachment, file_paths))]
                    ELSE << >>
    IN  [ events |->
            trace \o
            (IF copied
             THEN << Ev("clip_copy", "ok", "", combined) >>
                  \o (IF debug THEN << Line("debug_final", "", combined) >> ELSE << >>)
             ELSE << Ev("clip_copy", "raised", "", combined),
                     Line("error_unexpected", "", << >>) >>),
          result    |-> copy_result(copied, combined),
          clipboard |-> IF copied THEN [kind |-> "text", value |-> combined] ELSE clip ]

\* count_tokens(file_content, encoding): it returns a count (returned) or
\* raises; label is the item the caller is counting for
count_tokens(file_content, label, returned) ==
    Ev("count_tokens", IF returned THEN "ok" ELSE "raised", label, file_content)

----------------------------------------------------------------------------
(* Initial state: the command line and the host *)

Init ==
    /\ args \in [ version    : BOOLEAN,
                  header     : BOOLEAN,
                  attachment : BOOLEAN,
                  token      : BOOLEAN,
                  debug      : BOOLEAN,
                  export     : BOOLEAN,
                  file_paths : SeqsUpTo(PathNames, MaxPaths) ]
    /\ pyperclip_importable \in BOOLEAN
    /\ pc = "import"
    /\ clipboard \in [kind : {"text"}, value : InitialClipboards]
    /\ events = << >>
    /\ file_contents_list = << >>
    /\ valid_file_paths = << >>
    /\ i = 1
    /\ combined_contents = None

----------------------------------------------------------------------------
(* Steps of the process *)

\* cb.py:3-11: the module-level imports; a missing module ends the process
\* with ImportError before main() runs
ImportModules ==
    /\ pc = "import"
    /\ IF pyperclip_importable
       THEN /\ pc' = "deps"
            /\ events' = Append(events, Ev("import", "ok", "", << >>))
       ELSE /\ pc' = "crashed"
            /\ events' = Append(events, Ev("import", "raised", "", << >>))
    /\ UNCHANGED <<args, pyperclip_importable, clipboard, file_contents_list,
                   valid_file_paths, i, combined_contents>>

\* cb.py:80-86
CheckDependencies ==
    /\ pc = "deps"
    /\ \E xclip \in BOOLEAN, xsel \in BOOLEAN :
         LET missing_dependencies == check_dependencies(xclip, xsel, pyperclip_importable)
         IN  /\ events' =
                   Append(events, Ev("depcheck", IF Truthy(missing_dependencies)
                                                 THEN "missing" ELSE "ok",
                                     "", missing_dependencies))
                   \o (IF Truthy(missing_dependencies)
                       THEN << Line("missing_header", "", << >>) >>
                            \o [k \in 1..Len(missing_dependencies) |->
                                   Line("dep", "", << missing_dependencies[k] >>)]
                            \o install_dependencies(xclip, xsel, pyperclip_importable)
                       ELSE << >>)
             /\ pc' = AfterDependencyCheck(missing_dependencies)
    /\ UNCHANGED <<args, pyperclip_importable, clipboard, file_contents_list,
                   valid_file_paths, i, combined_contents>>

\* cb.py:88-90
ShowVersion ==
    /\ pc = "main"
    /\ args.version
    /\ events' = Append(events, Line("version", "", << >>))
    /\ pc' = "done"
    /\ UNCHANGED <<args, pyperclip_importable, clipboard, file_contents_list,
                   valid_file_paths, i, combined_contents>>

\* cb.py:94-98
NoInput ==
    /\ pc = "main"
    /\ ~args.version
    /\ Mode(args.file_paths) = "noinput"
    /\ events' = events \o
                 (IF args.export
                  THEN << Ev("clip_paste", "ok", "", clipboard.value),
                          Line("exported", "", clipboard.value) >>
                  ELSE << >>)
    /\ pc' = "done"
    /\ UNCHANGED <<args, pyperclip_importable, clipboard, file_contents_list,
                   valid_file_paths, i, combined_contents>>

\* cb.py:100-109: the whole stdin pathway.  counted: count_tokens returned
\* (FALSE: it raised); copied: pyperclip.copy returned (FALSE: it raised).
StdinMode ==
    /\ pc = "main"
    /\ ~args.version
    /\ Mode(args.file_paths) = "stdin"
    /\ \E raw \in RawTexts, counted \in BOOLEAN, copied \in BOOLEAN :
         LET file_content == strip(raw)
             read   == << Ev("stdin_read", "ok", "STDIN", raw) >>
             tokens == IF args.token
                       THEN IF counted
                            THEN << count_tokens(file_content, "STDIN", TRUE),
                                    Line("tokens", "STDIN", file_content) >>
                            ELSE << count_tokens(file_content, "STDIN", FALSE) >>
                       ELSE << >>
             call   == copy_file_contents_to_clipboard(<< file_content >>, args.header,
                           args.attachment, None, args.debug, copied, clipboard)
         IN  IF args.token /\ ~counted
             THEN /\ events' = events \o read \o tokens
                  /\ pc' = "crashed"
                  /\ UNCHANGED <<clipboard, combined_contents>>
             ELSE /\ events' = events \o read \o tokens \o call.events
                        \o (IF Truthy(call.result)
                            THEN << Line("stdin_copied", "", << >>) >>
                                 \o (IF args.export
                                     THEN << Line("exported", "", call.result) >>
                                     ELSE << >>)
                            ELSE << >>)
                  /\ clipboard' = call.clipboard
                  /\ combined_contents' = call.result
                  /\ pc' = "done"
    /\ UNCHANGED <<args, pyperclip_importable, file_contents_list, valid_file_paths, i>>

\* cb.py:110-112: the file pathway starts with two empty lists
EnterFileMode ==
    /\ pc = "main"
    /\ ~args.version
    /\ Mode(args.file_paths) = "files"
    /\ file_contents_list' = << >>
    /\ valid_file_paths' = << >>
    /\ i' = 1
    /\ pc' = "loop"
    /\ UNCHANGED <<args, pyperclip_importable, clipboard, events, combined_contents>>

\* the debug line that opens each iteration (cb.py:114-115)
ProcessingLine(file_path) ==
    IF args.debug THEN << Line("debug_processing", file_path, << >>) >> ELSE << >>

\* copy_image_to_clipboard(file_path): copy_successful is its return value.
\* On success the clipboard holds the image and the per-path success line
\* is printed; on failure the failure is reported and the clipboard is
\* left alone.
copy_image_to_clipboard(file_path, copy_successful, clip) ==
    [ events |->
        IF copy_successful
        THEN << Ev("image_copy", "ok", file_path, << >>),
                Line("path_copied", file_path, << >>) >>
        ELSE << Ev("image_copy", "failed", file_path, << >>),
                Line("image_error", file_path, << >>) >>,
      clipboard |-> IF copy_successful
                    THEN [kind |-> "image", value |-> << file_path >>]
                    ELSE clip ]

AfterImageCopy_continue(copy_successful) == "loop"

\* cb.py:118-119: if not copy_successful: return
AfterImageCopy(copy_successful) == IF ~copy_successful THEN "done" ELSE "loop"

\* cb.py:116-119: one iteration of the loop on an image path
ProcessImagePath ==
    /\ pc = "loop"
    /\ i <= Len(args.file_paths)
    /\ IsImagePath(args.file_paths[i])
    /\ \E copy_successful \in BOOLEAN :
         LET file_path == args.file_paths[i]
             call == copy_image_to_clipboard(file_path, copy_successful, clipboard)
         IN  /\ events' = events \o ProcessingLine(file_path) \o call.events
             /\ clipboard' = call.clipboard
             /\ pc' = AfterImageCopy(copy_successful)
    /\ i' = i + 1
    /\ UNCHANGED <<args, pyperclip_importable, file_contents_list, valid_file_paths,
                   combined_contents>>

\* what open(file_path, 'r') and file.read() may do
OpenOutcomes == {"ok", "not_found", "error"}

\* cb.py:120-130: one iteration of the loop on any other path
ProcessTextPath ==
    /\ pc = "loop"
    /\ i <= Len(args.file_paths)
    /\ ~IsImagePath(args.file_paths[i])
    /\ \E outcome \in OpenOutcomes, raw \in RawTexts :
         LET file_path == args.file_paths[i]
             file_content == strip(raw)
         IN  CASE outcome = "ok" ->
                    /\ events' = events \o ProcessingLine(file_path)
                          \o << Ev("file_open", "ok", file_path, raw) >>
                          \o (IF args.debug
                              THEN << Line("debug_appended", file_path, << >>) >>
                              ELSE << >>)
                    /\ file_contents_list' = Append(file_contents_list, file_content)
                    /\ valid_file_paths' = Append(valid_file_paths, file_path)
                    /\ pc' = "loop"
               [] outcome = "not_found" ->
                    \* FileNotFoundError: reported, next path
                    /\ raw = << >>
                    /\ events' = events \o ProcessingLine(file_path)
                          \o << Ev("file_open", "not_found", file_path, << >>),
                                Line("not_found", file_path, << >>) >>
                    /\ UNCHANGED <<file_contents_list, valid_file_paths>>
                    /\ pc' = "loop"
               [] outcome = "error" ->
                    \* any other exception of open/read is not caught
                    /\ raw = << >>
                    /\ events' = events \o ProcessingLine(file_path)
                          \o << Ev("file_open", "raised", file_path, << >>) >>
                    /\ UNCHANGED <<file_contents_list, valid_file_paths>>
                    /\ pc' = "crashed"
    /\ i' = i + 1
    /\ UNCHANGED <<args, pyperclip_importable, clipboard, combined_contents>>

zip_skipping_first(a, b) ==
    [k \in 1..(IF Len(a) < Len(b) THEN Len(a) ELSE Len(b)) - 1 |-> << a[k + 1], b[k + 1] >>]

\* Python's zip of two lists
zip(a, b) ==
    [k \in 1..(IF Len(a) < Len(b) THEN Len(a) ELSE Len(b)) |-> << a[k], b[k] >>]

\* the first n iterations of the loop at cb.py:133-135, every count returning
RECURSIVE TokenLines(_, _)
TokenLines(pairs, n) ==
    IF n = 0 THEN << >>
    ELSE TokenLines(pairs, n - 1)
         \o << count_tokens(pairs[n][1], pairs[n][2], TRUE),
               Line("tokens", pairs[n][2], pairs[n][1]) >>

\* cb.py:132-135, entered when the loop over args.file_paths is exhausted.
\* counted is the number of count_tokens calls that return; the next one,
\* if there is one, raises.
CountTokens ==
    /\ pc = "loop"
    /\ i > Len(args.file_paths)
    /\ IF args.token
       THEN LET pairs == zip(file_contents_list, valid_file_paths)
            IN  \E counted \in 0..Len(pairs) :
                  IF counted = Len(pairs)
                  THEN /\ events' = events \o TokenLines(pairs, counted)
                       /\ pc' = "copy"
                  ELSE /\ events' = events \o TokenLines(pairs, counted)
                             \o << count_tokens(pairs[counted + 1][1],
                                                pairs[counted + 1][2], FALSE) >>
                       /\ pc' = "crashed"
       ELSE /\ pc' = "copy"
            /\ UNCHANGED events
    /\ UNCHANGED <<args, pyperclip_importable, clipboard, file_contents_list,
                   valid_file_paths, i, combined_contents>>

PathsForCopy_all_arguments(valid_file_paths_, file_paths) == file_paths

\* cb.py:138: the paths handed to copy_file_contents_to_clipboard
PathsForCopy(valid_file_paths_, file_paths) == valid_file_paths_

\* cb.py:137-142
CopyFiles ==
    /\ pc = "copy"
    /\ IF Truthy(file_contents_list)
       THEN \E copied \in BOOLEAN :
              LET call == copy_file_contents_to_clipboard(file_contents_list, args.header,
                              args.attachment,
                              PathsForCopy(valid_file_paths, args.file_paths),
                              args.debug, copied, clipboard)
              IN  /\ events' = events \o call.events
                        \o (IF Truthy(call.result)
                            THEN << Line("all_copied", "", << >>) >>
                                 \o (IF args.export
                                     THEN << Line("exported", "", call.result) >>
                                     ELSE << >>)
                            ELSE << >>)
                  /\ clipboard' = call.clipboard
                  /\ combined_contents' = call.result
       ELSE UNCHANGED <<events, clipboard, combined_contents>>
    /\ pc' = "done"
    /\ UNCHANGED <<args, pyperclip_importable, file_contents_list, valid_file_paths, i>>

Next ==
    \/ ImportModules
    \/ CheckDependencies
    \/ ShowVersion
    \/ NoInput
    \/ StdinMode
    \/ EnterFileMode
    \/ ProcessImagePath
    \/ ProcessTextPath
    \/ CountTokens
    \/ CopyFiles

Spec == Init /\ [][Next]_vars

TypeOK ==
    /\ pc \in {"import", "deps", "main", "loop", "copy", "done", "crashed"}
    /\ Len(file_contents_list) = Len(valid_file_paths)
    /\ i \in 1..(Len(args.file_paths) + 1)

----------------------------------------------------------------------------
(* Reading the event log *)

At(e, k) == { n \in DOMAIN events : events[n].ev = e /\ events[n].kind = k }
AtEv(e) == { n \in DOMAIN events : events[n].ev = e }
Printed(k) == At("print", k)

IsOpen(x) == x.ev = "file_open"
IsOkOpen(x) == x.ev = "file_open" /\ x.kind = "ok"

\* the files read so far, in the order they were read
OkOpens == SelectSeq(events, IsOkOpen)
\* the same, up to (not including) event n
OkOpensBefore(n) == SelectSeq(SubSeq(events, 1, n - 1), IsOkOpen)
OpensBefore(n) == SelectSeq(SubSeq(events, 1, n - 1), IsOpen)

PathsOf(evs) == [k \in DOMAIN evs |-> evs[k].path]

\* a text without its leading and trailing whitespace, said directly: the
\* stretch from its first to its last non-whitespace character
TrimOf(s) ==
    LET solid == { k \in DOMAIN s : s[k] \notin Whitespace }
    IN  IF solid = {} THEN << >>
        ELSE SubSeq(s,
                    CHOOSE k \in solid : \A m \in solid : k <= m,
                    CHOOSE k \in solid : \A m \in solid : k >= m)

\* each read's trimmed content followed by one newline, in order
RECURSIVE PlainPayload(_)
PlainPayload(opens) ==
    IF opens = << >> THEN << >>
    ELSE PlainPayload(SubSeq(opens, 1, Len(opens) - 1))
         \o TrimOf(opens[Len(opens)].text) \o << "\n" >>

TextPathNames == {"a.txt", "b.md"}

\* the dependency check passed
DependenciesPresent == At("depcheck", "ok") # {}

\* a run on one or more paths, none of them "-", that passed the dependency
\* check and is not a --version run
FileModeRun ==
    /\ DependenciesPresent
    /\ ~args.version
    /\ args.file_paths # << >>
    /\ "-" \notin Range(args.file_paths)

OnlyTextPaths == Range(args.file_paths) \subseteq TextPathNames

----------------------------------------------------------------------------
(* C1 *)

C1_Case ==
    /\ FileModeRun
    /\ OnlyTextPaths
    /\ ~args.header
    /\ ~args.attachment
    /\ \A n \in AtEv("file_open") : events[n].kind = "ok"

\* C1: for a sequence of readable text file paths given with neither --header
\* nor -a, the text handed to the clipboard is each file's content, stripped
\* of leading and trailing whitespace and followed by one newline, in
\* command-line order; the write happens after every path has been read, at
\* most once, and exactly once in a run that reaches its end.
C1_PlainPayloadOnce ==
    C1_Case =>
        /\ \A n \in AtEv("clip_copy") :
              /\ PathsOf(OkOpensBefore(n)) = args.file_paths
              /\ events[n].text = PlainPayload(OkOpensBefore(n))
              /\ events[n].kind = "ok" => clipboard = [kind |-> "text", value |-> events[n].text]
        /\ Cardinality(AtEv("clip_copy")) <= 1
        /\ pc = "done" => Cardinality(AtEv("clip_copy")) = 1

C1_Witness ==
    /\ C1_Case
    /\ pc = "done"
    /\ args.file_paths = << "b.md", "a.txt" >>
    /\ At("clip_copy", "ok") # {}
    /\ Len(OkOpens) = 2
    /\ OkOpens[1].text = << " ", "x", "\n" >>
    /\ OkOpens[2].text = << "x", " ", "y" >>

----------------------------------------------------------------------------
(* C2 *)

\* one formatted item, case by case
ExpectedItem(header, attachment, path, item) ==
    CASE ~header /\ ~attachment -> item
      [] header /\ ~attachment ->
            << "=== File: ", path, " ===\n" >> \o item
      [] ~header /\ attachment ->
            << "[Attached file: ", path, AttachmentOpen >> \o item \o << AttachmentClose >>
      [] header /\ attachment ->
            << "[Attached file: ", path, AttachmentOpen, "=== File: ", path, " ===\n" >>
            \o item \o << AttachmentClose >>

RECURSIVE ExpectedPayload(_, _, _)
ExpectedPayload(opens, items, n) ==
    IF n = 0 THEN << >>
    ELSE ExpectedPayload(opens, items, n - 1)
         \o ExpectedItem(args.header, args.attachment, opens[n].path, items[n])
         \o << "\n" >>

\* C2: every text item read from a file path is formatted on its own before
\* the items are combined: --header alone prefixes the header line naming
\* the item's path, -a alone wraps the item in the attachment block naming
\* its path, both together put the header inside the wrapper, and neither
\* leaves the item as it is.
C2_PerItemFormatting ==
    FileModeRun =>
        \A n \in AtEv("clip_copy") :
            /\ Len(OkOpensBefore(n)) = Len(file_contents_list)
            /\ events[n].text =
                   ExpectedPayload(OkOpensBefore(n), file_contents_list, Len(file_contents_list))

C2_Witness ==
    /\ FileModeRun
    /\ args.header
    /\ args.attachment
    /\ Len(file_contents_list) = 2
    /\ valid_file_paths[1] # valid_file_paths[2]
    /\ file_contents_list[1] # file_contents_list[2]
    /\ At("clip_copy", "ok") # {}

----------------------------------------------------------------------------
(* C3 *)

\* the atoms that directly follow a marker atom in a text, in order
RECURSIVE NamesAfter(_, _)
NamesAfter(marker, t) ==
    IF Len(t) < 2 THEN << >>
    ELSE (IF t[1] = marker THEN << t[2] >> ELSE << >>) \o NamesAfter(marker, Tail(t))

\* C3: in file mode a path that is not found is reported and skipped and the
\* other paths are still read and copied; the payload holds one item per
\* file actually read, and the header and the attachment wrapper of the
\* k-th item name the path the k-th item was read from.
C3_SkipMissingKeepPairing ==
    FileModeRun =>
        /\ \A n \in At("file_open", "not_found") :
              /\ n < Len(events)
              /\ events[n + 1] = Line("not_found", events[n].path, << >>)
        /\ Cardinality(Printed("not_found")) = Cardinality(At("file_open", "not_found"))
        /\ (OnlyTextPaths /\ pc \in {"copy", "done"}) =>
              /\ PathsOf(SelectSeq(events, IsOpen)) = args.file_paths
              /\ (pc = "done" /\ OkOpens # << >>) => AtEv("clip_copy") # {}
        /\ \A n \in AtEv("clip_copy") :
              LET read == PathsOf(OkOpensBefore(n))
              IN  /\ read # << >>
                  /\ args.header =>
                        NamesAfter("=== File: ", events[n].text) = read
                  /\ args.attachment =>
                        NamesAfter("[Attached file: ", events[n].text) = read
                  /\ (~args.header /\ ~args.attachment) =>
                        events[n].text = PlainPayload(OkOpensBefore(n))

C3_Witness ==
    /\ FileModeRun
    /\ pc = "done"
    /\ args.header
    /\ args.file_paths = << "a.txt", "b.md" >>
    /\ At("file_open", "not_found") # {}
    /\ PathsOf(OkOpens) = << "b.md" >>
    /\ At("clip_copy", "ok") # {}

----------------------------------------------------------------------------
(* C4 *)

C4_Case ==
    /\ args.file_paths = << >>
    /\ ~args.export
    /\ ~args.version
    /\ DependenciesPresent

\* C4: with no positional argument and no --export (dependencies present,
\* no --version) the invocation goes straight to its end: it reads neither
\* standard input nor any file, does not touch the clipboard and prints
\* nothing, whatever --header, -a, -t and --debug are.
C4_NoInputNoEffect ==
    C4_Case =>
        /\ pc \in {"main", "done"}
        /\ \A n \in DOMAIN events : events[n].ev \in {"import", "depcheck"}
        /\ combined_contents = None

C4_Witness ==
    /\ C4_Case
    /\ pc = "done"
    /\ args.header /\ args.attachment /\ args.token /\ args.debug

----------------------------------------------------------------------------
(* C5 *)

DependencyReportKinds == {"missing_header", "dep", "install_header"}

\* C5: once the dependency check reports a missing dependency the invocation
\* does nothing else: no clipboard read or write, no image copy, no read of
\* standard input or of a file, no version line, before or after the report;
\* and nothing of the kind is ever done before the dependency check.
C5_MissingDependencyHalts ==
    /\ Printed("missing_header") # {} =>
          /\ pc = "done"
          /\ \A n \in DOMAIN events :
                \/ events[n].ev \in {"import", "depcheck"}
                \/ events[n].ev = "print" /\ events[n].kind \in DependencyReportKinds
    /\ At("depcheck", "missing") # {} => Printed("missing_header") # {}
    /\ \A n \in DOMAIN events :
          events[n].ev \notin {"import", "depcheck"} =>
              \E m \in 1..(n - 1) : events[m].ev = "depcheck"

C5_Witness ==
    /\ Printed("missing_header") # {}
    /\ pc = "done"
    /\ args.file_paths # << >>
    /\ args.export
    /\ ~args.version

----------------------------------------------------------------------------
(* C6 *)

SuccessOrExportKinds == {"all_copied", "stdin_copied", "exported"}

\* C6: the first image whose copy fails ends the invocation: nothing but the
\* report of that failure follows it, so no later path is processed, no text
\* is written to the clipboard (not even text read before the image) and no
\* success line or export output is printed.
C6_ImageFailureAborts ==
    \A n \in At("image_copy", "failed") :
        /\ pc = "done"
        /\ \A m \in (n + 1)..Len(events) :
              events[m].ev = "print" /\ events[m].kind = "image_error"
        /\ Cardinality(AtEv("file_open")) + Cardinality(AtEv("image_copy")) = i - 1
        /\ args.file_paths[i - 1] = events[n].path
        /\ AtEv("clip_copy") = {}
        /\ \A m \in DOMAIN events :
              events[m].ev = "print" => events[m].kind \notin SuccessOrExportKinds
        /\ combined_contents = None

C6_Witness ==
    /\ At("image_copy", "failed") # {}
    /\ pc = "done"
    /\ args.file_paths = << "a.txt", "P.PNG" >>
    /\ args.export
    /\ Len(file_contents_list) = 1

C6_WitnessLaterPath ==
    /\ At("image_copy", "failed") # {}
    /\ pc = "done"
    /\ args.file_paths = << "P.PNG", "a.txt" >>

----------------------------------------------------------------------------
(* C7 *)

\* C7: one success line per completed action: the path's own line when
\* exactly one text file is copied, the "All files" line only when more
\* than one text file is copied, the STDIN line for piped input.
C7_SuccessLineNamesThePath ==
    /\ (FileModeRun /\ pc = "done" /\ Len(OkOpens) = 1 /\ At("clip_copy", "ok") # {}) =>
          \E n \in Printed("path_copied") : events[n].path = OkOpens[1].path
    /\ Printed("all_copied") # {} => Len(OkOpens) > 1
    /\ At("stdin_read", "ok") # {} /\ At("clip_copy", "ok") # {} =>
          Cardinality(Printed("stdin_copied")) = 1

----------------------------------------------------------------------------
(* C8 *)

IsTokenLine(x) == x.ev = "print" /\ x.kind = "tokens"
IsTextRead(x) == x.kind = "ok" /\ x.ev \in {"file_open", "stdin_read"}

\* label and counted text of each token-count line, in order
TokenLinesPrinted ==
    LET lines == SelectSeq(events, IsTokenLine)
    IN  [k \in DOMAIN lines |-> << lines[k].path, lines[k].text >>]

\* label and trimmed text of each text item read, in order
TextItemsRead ==
    LET reads == SelectSeq(events, IsTextRead)
    IN  [k \in DOMAIN reads |-> << reads[k].path, TrimOf(reads[k].text) >>]

C8_Ordering ==
    /\ \A n \in Printed("tokens") : \A m \in AtEv("clip_copy") : n < m
    /\ \A n \in Printed("tokens") : args.token
    /\ At("count_tokens", "raised") # {} =>
          /\ pc = "crashed"
          /\ events[Len(events)].ev = "count_tokens"
          /\ AtEv("clip_copy") = {}
          /\ \A m \in DOMAIN events :
                events[m].ev = "print" => events[m].kind \notin SuccessOrExportKinds

----------------------------------------------------------------------------
(* C9 *)

\* C9: with --export and a text item, the text printed after "Exported
\* contents:" is the text this invocation put on the clipboard, printed
\* after the write succeeded and never when the write failed (the write
\* then returns no payload); with --export and no path, the current
\* clipboard text is read and printed and the clipboard stays as it was.
C9_ExportShowsWhatWasCopied ==
    /\ \A n \in Printed("exported") :
          /\ args.export
          /\ \/ /\ args.file_paths # << >>
                /\ \E m \in At("clip_copy", "ok") :
                      /\ m < n
                      /\ events[m].text = events[n].text
                /\ clipboard = [kind |-> "text", value |-> events[n].text]
                /\ combined_contents = events[n].text
             \/ /\ args.file_paths = << >>
                /\ n > 1
                /\ events[n - 1] = Ev("clip_paste", "ok", "", events[n].text)
                /\ clipboard = [kind |-> "text", value |-> events[n].text]
                /\ AtEv("clip_copy") = {}
    /\ At("clip_copy", "raised") # {} =>
          /\ Printed("exported") = {}
          /\ combined_contents = None
    /\ (args.export /\ pc = "done" /\ At("clip_copy", "ok") # {}) =>
          Cardinality(Printed("exported")) = 1
    /\ (args.export /\ pc = "done" /\ args.file_paths = << >>
            /\ DependenciesPresent /\ ~args.version) =>
          Cardinality(Printed("exported")) = 1

C9_Witness ==
    /\ args.export
    /\ pc = "done"
    /\ args.file_paths = << "a.txt", "b.md" >>
    /\ args.header
    /\ Len(file_contents_list) = 2
    /\ Printed("exported") # {}

C9_WitnessFailedWrite ==
    /\ args.export
    /\ pc = "done"
    /\ At("clip_copy", "raised") # {}

----------------------------------------------------------------------------
(* C10 *)

IsStdinRead(x) == x.ev = "stdin_read"

\* C10: with "-" among the paths next to text file paths, standard input is
\* read once and gives one item, every file path gives its own item, and
\* the payload holds all of them in command-line order.
C10_EveryPathContributes ==
    (/\ DependenciesPresent
     /\ ~args.version
     /\ Cardinality({ k \in DOMAIN args.file_paths : args.file_paths[k] = "-" }) = 1
     /\ Range(args.file_paths) \subseteq TextPathNames \cup {"-"}
     /\ Range(args.file_paths) \cap TextPathNames # {}
     /\ pc = "done"
     /\ At("clip_copy", "ok") # {}) =>
        /\ Cardinality(AtEv("stdin_read")) = 1
        /\ LET reads == SelectSeq(events, IsTextRead)
           IN  /\ Len(reads) = Len(args.file_paths)
               /\ \A k \in DOMAIN reads :
                     reads[k].path = IF args.file_paths[k] = "-" THEN "STDIN"
                                     ELSE args.file_paths[k]

====
